---- MODULE Spec2Model ----
(***************************************************************************)
(* Model of the shothammer() event callback of src/shothammer.py: one      *)
(* ShotGrid tag-change event is classified, the shot's path is resolved    *)
(* through a bootstrapped toolkit engine, and the added / removed tags are *)
(* mirrored as Hammerspace keywords on that path.                          *)
(*                                                                         *)
(* Python values that may be None are modelled as records carrying their   *)
(* type in the field ty, so that the TypeError raised by subscripting,     *)
(* formatting or testing membership on a value of the wrong type is        *)
(* computed and not assumed.                                               *)
(***************************************************************************)
EXTENDS Integers, Sequences, FiniteSets, TLC

VARIABLES
    SGHS_PROJECTS,       \* allow-list as parsed from the .ini file
    CAPTURE_LAST_EVENT,  \* capture toggle
    pc,                  \* position of the invocation of shothammer()
    event,               \* the event handed to the callback
    path,                \* local `path` of shothammer()
    engine,              \* session id bound to local `engine`, 0 when unbound
    sessions,            \* set of session ids bootstrapped and not destroyed
    nextSession,         \* next fresh session id
    full_shot,           \* result of find_one
    fields,              \* locals Shot, Sequence, Episode
    result,              \* local `result` of bootstrap_engine_to_shot_path()
    idx,                 \* loop position in add_tags / remove_tags
    lastEventFile,       \* content of LAST_EVENT_FILE
    captureFiles,        \* the failure-capture files: set of [name, content]
    cmds,                \* shell commands run so far, in order
    log,                 \* log records emitted so far, in order
    trace,               \* external calls made so far, in order
    exc,                 \* exception that left shothammer(), "none" otherwise
    peer                 \* a second call of shothammer() running concurrently

vars == <<SGHS_PROJECTS, CAPTURE_LAST_EVENT, pc, event, path, engine, sessions,
          nextSession, full_shot, fields, result, idx, lastEventFile,
          captureFiles, cmds, log, trace, exc, peer>>

----------------------------------------------------------------------------
(* Bounds *)

\* an event carries at most MaxTags tag occurrences over added and removed
MaxTags == 2

\* the daemon hands over further events until MaxSessions engines have been
\* bootstrapped
MaxSessions == 2

----------------------------------------------------------------------------
(* Python values *)

None == [ty |-> "NoneType"]
PyStr(s) == [ty |-> "str", s |-> s]
PyList(S) == [ty |-> "list", elems |-> S]

\* outcome of evaluating an expression: a value, or a raised exception
Return(v) == [exc |-> "none", val |-> v]
Raise(x) == [exc |-> x]

\* obj[key]: 'NoneType' object is not subscriptable
Subscript(obj, key) ==
    IF obj.ty = "NoneType" THEN Raise("TypeError") ELSE Return(obj[key])

\* "... %i" % arg: %i format needs a number
FormatPercentI(arg) ==
    IF arg.ty = "int" THEN Return(arg.i) ELSE Raise("TypeError")

\* x in container: argument of type 'NoneType' is not iterable
Contains(container, x) ==
    IF container.ty = "NoneType" THEN Raise("TypeError")
    ELSE Return(x \in container.elems)

\* a test that lets every object through
Truthy_Always(v) == TRUE

\* truth value of an object in `if path:`
Truthy(v) == v.ty # "NoneType"

\* s.startswith(prefix) on strings held as sequences of characters
StartsWith(s, prefix) ==
    /\ Len(prefix) <= Len(s)
    /\ \A i \in 1..Len(prefix) : s[i] = prefix[i]

----------------------------------------------------------------------------
(* Configuration *)

\* SGHS_TAG_NAMESPACE of the .ini file ("sghs:" abbreviated to two characters)
SGHS_TAG_NAMESPACE == <<"s", ":">>

\* values of the SGHS_PROJECTS option after split(','): '' or a list of ids
ProjectOptions == {<<>>, <<5>>}

\* lines 16-19: an empty option becomes None, else the list of ints
ParseProjects(raw) ==
    IF raw = <<>> THEN None ELSE PyList({raw[i] : i \in 1..Len(raw)})

----------------------------------------------------------------------------
(* Events *)

TagX == <<"s", ":", "x">>        \* "sghs:x"
TagHero == <<"s", ":", "h">>     \* "sghs:hero"
TagOther == <<"o", ":", "f">>    \* "other:foo"
Tags == {TagX, TagHero, TagOther}

TagLists == UNION {[1..n -> {[name |-> t] : t \in Tags}] : n \in 0..MaxTags}

Projects == {[ty |-> "dict", id |-> 5, name |-> "projA"],
             [ty |-> "dict", id |-> 7, name |-> "projB"]}

Entities == {[id |-> 9502, name |-> PyStr("ep01_sq01_sh010")],
             [id |-> 9583, name |-> PyStr("ep01_sq01_sh020")]}

MetaTypes == {"attribute_change", "entity_retirement"}

\* created_at is a datetime: whole seconds and a sub-second part
Datetimes == [sec : {0, 1}, micro : {0, 1}]

Events ==
    {e \in [project : Projects \cup {None},
            entity : Entities,
            meta : [type : MetaTypes, added : TagLists, removed : TagLists],
            created_at : Datetimes] :
        Len(e.meta.added) + Len(e.meta.removed) <= MaxTags}

NoEvent == [ty |-> "NoneType"]

----------------------------------------------------------------------------
(* Event accessors, lines 260-275 *)

project_name_from_event(e) == Subscript(e.project, "name")

is_attribute_change(e) == e.meta.type = "attribute_change"

get_shot_code(e) == e.entity.name

get_project_id(e) == Subscript(e.project, "id")

----------------------------------------------------------------------------
(* External collaborators, as seen from their call sites *)

\* records find_one can return for a shot: None, or a dict whose code,
\* sg_sequence and sg_episode may each be None
ShotRecords ==
    [ty : {"dict"},
     code : {None, PyStr("sh010")},
     sg_sequence : {None, [ty |-> "dict", name |-> "seq01"]},
     sg_episode : {None, [ty |-> "dict", name |-> "ep01"]}]

LookupResults == ShotRecords \cup {None}

\* the field read without its try / except
TryGet_NoExcept(r) == r

\* lines 180-194: each field is read under `except TypeError`, which turns
\* that exception into None; any other outcome is passed on
TryGet(r) == IF r.exc = "TypeError" THEN Return(None) ELSE r

ExtractShot(shot) == TryGet(Subscript(shot, "code"))

ExtractSequence(shot) == TryGet(Subscript(shot, "sg_sequence"))

\* full_shot['sg_episode']['name'] inside one try
ExtractEpisode(shot) ==
    LET ep == Subscript(shot, "sg_episode")
        name == IF ep.exc # "none" THEN ep
                ELSE LET n == Subscript(ep.val, "name") IN
                     IF n.exc # "none" THEN n ELSE Return(PyStr(n.val))
    IN TryGet(name)

\* work_shot_area_template.apply_fields(): TankError when a required field
\* is None, else the path composed from the three fields
apply_fields(f) ==
    IF \E k \in {"Shot", "Sequence", "Episode"} : f[k].ty = "NoneType"
    THEN Raise("TankError")
    ELSE Return([ty |-> "str", Sequence |-> f.Sequence,
                 Episode |-> f.Episode, Shot |-> f.Shot])

\* an except clause naming another exception class than the one raised
CaughtAtApplyFields_WrongClass(x) == x = "shothammer.TankError"

\* line 203: the except clause of the apply_fields call
CaughtAtApplyFields(x) == x = "TankError"

\* a format that keeps the sub-second part
strftime_SubSecond(dt) == dt.sec * 10 + dt.micro

\* line 207: strftime("%Y-%m-%d_%H-%M-%S") keeps whole seconds only
strftime(dt) == dt.sec

\* a file name that leaves the shot id out
CaptureFilename_NoId(shot_id, date_string) ==
    [prefix |-> "shot_id", id |-> 0, date |-> date_string, ext |-> "pickle"]

\* line 208: "shot_id-%s-%s.pickle" % (shot_id, date_string)
CaptureFilename(shot_id, date_string) ==
    [prefix |-> "shot_id", id |-> shot_id, date |-> date_string,
     ext |-> "pickle"]

\* pickle.dump(event, F): the serialised event
Pickle(e) == [pickled |-> e]

\* open(filename, 'wb') and dump: the file is created or replaced
WriteFile(files, name, content) ==
    {f \in files : f.name # name} \cup {[name |-> name, content |-> content]}

NoFile == [ty |-> "NoneType"]

----------------------------------------------------------------------------
(* Keyword commands, lines 230-258 *)

Cmd(tool, keyword, p, recursive) ==
    [tool |-> tool, r |-> recursive, keyword |-> keyword, path |-> p]

\* the namespace test left out of hs_keyword_add
hs_keyword_add_Unfiltered(p, keyword, recursive) ==
    <<Cmd("hs keyword add", keyword, p, recursive)>>

\* the commands hs_keyword_add runs: none outside the namespace
hs_keyword_add(p, keyword, recursive) ==
    IF ~StartsWith(keyword, SGHS_TAG_NAMESPACE) THEN <<>>
    ELSE <<Cmd("hs keyword add", keyword, p, recursive)>>

\* hs_keyword_delete building the command of hs_keyword_add
hs_keyword_delete_AsAdd(p, keyword, recursive) ==
    IF ~StartsWith(keyword, SGHS_TAG_NAMESPACE) THEN <<>>
    ELSE <<Cmd("hs keyword add", keyword, p, recursive)>>

\* the commands hs_keyword_delete runs: none outside the namespace
hs_keyword_delete(p, keyword, recursive) ==
    IF ~StartsWith(keyword, SGHS_TAG_NAMESPACE) THEN <<>>
    ELSE <<Cmd("hs keyword delete", keyword, p, recursive)>>

\* line 124
tags_to_add(e) == [i \in 1..Len(e.meta.added) |-> e.meta.added[i].name]

\* the removed tags taken last to first
tags_to_remove_Reversed(e) ==
    [i \in 1..Len(e.meta.removed) |->
        e.meta.removed[Len(e.meta.removed) + 1 - i].name]

\* line 139
tags_to_remove(e) == [i \in 1..Len(e.meta.removed) |-> e.meta.removed[i].name]

\* the recursive argument left at its default of True
RecursiveFlag_Default == TRUE

\* lines 129, 142: the callback passes recursive=False
RecursiveFlag == FALSE

----------------------------------------------------------------------------
(* The callback *)

Init ==
    /\ SGHS_PROJECTS \in {ParseProjects(raw) : raw \in ProjectOptions}
    /\ CAPTURE_LAST_EVENT \in BOOLEAN
    /\ pc = "idle"
    /\ event = NoEvent
    /\ path = None
    /\ engine = 0
    /\ sessions = {}
    /\ nextSession = 1
    /\ full_shot = None
    /\ fields = [Shot |-> None, Sequence |-> None, Episode |-> None]
    /\ result = None
    /\ idx = 0
    /\ lastEventFile = NoFile
    /\ captureFiles = {}
    /\ cmds = <<>>
    /\ log = <<>>
    /\ trace = <<>>
    /\ exc = "none"
    /\ peer = [pc |-> "idle", engine |-> 0]

\* an exception leaves shothammer(): nothing after it runs
Propagate(x) ==
    /\ pc' = "raised"
    /\ exc' = x

\* the daemon calls shothammer(sg, logger, event, args)
Deliver(e) ==
    /\ pc = "idle"
    /\ event' = e
    /\ pc' = "check_project"
    /\ UNCHANGED <<peer, SGHS_PROJECTS, CAPTURE_LAST_EVENT, path, engine, sessions,
                   nextSession, full_shot, fields, result, idx, lastEventFile,
                   captureFiles, cmds, log, trace, exc>>

\* lines 87-91
CheckProject ==
    /\ pc = "check_project"
    /\ LET name == project_name_from_event(event) IN
       IF name.exc = "none"
       THEN /\ pc' = "capture_last"
            /\ UNCHANGED <<log, exc>>
       ELSE LET msg == FormatPercentI(get_shot_code(event)) IN
            IF msg.exc = "none"
            THEN /\ log' = Append(log, [level |-> "warn",
                                        what |-> "project is none",
                                        arg |-> get_shot_code(event)])
                 /\ pc' = "returned"
                 /\ UNCHANGED exc
            ELSE /\ Propagate(msg.exc)
                 /\ UNCHANGED log
    /\ UNCHANGED <<peer, SGHS_PROJECTS, CAPTURE_LAST_EVENT, event, path, engine,
                   sessions, nextSession, full_shot, fields, result, idx,
                   lastEventFile, captureFiles, cmds, trace>>

\* lines 93-94; the write to LAST_EVENT_FILE succeeds or raises
CaptureLast ==
    /\ pc = "capture_last"
    /\ IF CAPTURE_LAST_EVENT
       THEN \E written \in BOOLEAN :
              IF written
              THEN /\ lastEventFile' = Pickle(event)
                   /\ pc' = "allow_list"
                   /\ UNCHANGED exc
              ELSE /\ Propagate("OSError")
                   /\ UNCHANGED lastEventFile
       ELSE /\ pc' = "allow_list"
            /\ UNCHANGED <<lastEventFile, exc>>
    /\ UNCHANGED <<peer, SGHS_PROJECTS, CAPTURE_LAST_EVENT, event, path, engine,
                   sessions, nextSession, full_shot, fields, result, idx,
                   captureFiles, cmds, log, trace>>

\* the allow-list test left out: every project passes
InAllowList_NoFilter(e, allowed) == Return(TRUE)

\* the test of line 98
InAllowList(e, allowed) == Contains(allowed, get_project_id(e).val)

\* lines 97-98
CheckAllowList ==
    /\ pc = "allow_list"
    /\ LET member == InAllowList(event, SGHS_PROJECTS) IN
       IF member.exc # "none"
       THEN Propagate(member.exc)
       ELSE /\ pc' = IF member.val THEN "bootstrap" ELSE "check_path"
            /\ UNCHANGED exc
    /\ path' = None
    /\ UNCHANGED <<peer, SGHS_PROJECTS, CAPTURE_LAST_EVENT, event, engine, sessions,
                   nextSession, full_shot, fields, result, idx, lastEventFile,
                   captureFiles, cmds, log, trace>>

\* lines 154-165: manager.bootstrap_engine() returns a fresh engine or raises
Bootstrap ==
    /\ pc = "bootstrap"
    /\ trace' = Append(trace, "bootstrap_engine")
    /\ \E acquired \in BOOLEAN :
         IF acquired
         THEN /\ engine' = nextSession
              /\ sessions' = sessions \cup {nextSession}
              /\ nextSession' = nextSession + 1
              /\ pc' = "template"
              /\ UNCHANGED exc
         ELSE /\ Propagate("TankBootstrapError")
              /\ UNCHANGED <<engine, sessions, nextSession>>
    /\ UNCHANGED <<peer, SGHS_PROJECTS, CAPTURE_LAST_EVENT, event, path, full_shot,
                   fields, result, idx, lastEventFile, captureFiles, cmds, log>>

\* line 171: engine.sgtk.templates["work_shot_area"], KeyError when the
\* project's configuration has no such template
GetTemplate ==
    /\ pc = "template"
    /\ \E configured \in BOOLEAN :
         IF configured
         THEN /\ pc' = "find_one"
              /\ UNCHANGED exc
         ELSE Propagate("KeyError")
    /\ UNCHANGED <<peer, SGHS_PROJECTS, CAPTURE_LAST_EVENT, event, path, engine,
                   sessions, nextSession, full_shot, fields, result, idx,
                   lastEventFile, captureFiles, cmds, log, trace>>

\* lines 175-177: one find_one on the engine's connection; it returns a
\* record, None, or raises
FindOne ==
    /\ pc = "find_one"
    /\ trace' = Append(trace, "find_one")
    /\ \/ \E r \in LookupResults :
            /\ full_shot' = r
            /\ pc' = "extract"
            /\ UNCHANGED exc
       \/ /\ Propagate("Fault")
          /\ UNCHANGED full_shot
    /\ UNCHANGED <<peer, SGHS_PROJECTS, CAPTURE_LAST_EVENT, event, path, engine,
                   sessions, nextSession, fields, result, idx, lastEventFile,
                   captureFiles, cmds, log>>

\* lines 180-194
ExtractFields ==
    /\ pc = "extract"
    /\ LET shot == ExtractShot(full_shot)
           sequence == ExtractSequence(full_shot)
           episode == ExtractEpisode(full_shot)
       IN IF shot.exc # "none"
          THEN Propagate(shot.exc) /\ UNCHANGED fields
          ELSE IF sequence.exc # "none"
          THEN Propagate(sequence.exc) /\ UNCHANGED fields
          ELSE IF episode.exc # "none"
          THEN Propagate(episode.exc) /\ UNCHANGED fields
          ELSE /\ fields' = [Shot |-> shot.val,
                             Sequence |-> sequence.val,
                             Episode |-> episode.val]
               /\ pc' = "apply_fields"
               /\ UNCHANGED exc
    /\ UNCHANGED <<peer, SGHS_PROJECTS, CAPTURE_LAST_EVENT, event, path, engine,
                   sessions, nextSession, full_shot, result, idx,
                   lastEventFile, captureFiles, cmds, log, trace>>

\* lines 197-212: compose the path; on TankError log, capture the event
\* (the write succeeds or raises) and carry on with result = None
ApplyFields ==
    /\ pc = "apply_fields"
    /\ trace' = Append(trace, "apply_fields")
    /\ LET r == apply_fields(fields)
           filename == CaptureFilename(event.entity.id,
                                       strftime(event.created_at))
       IN IF r.exc = "none"
          THEN /\ result' = r.val
               /\ pc' = "destroy"
               /\ UNCHANGED <<log, captureFiles, exc>>
          ELSE IF CaughtAtApplyFields(r.exc)
          THEN /\ log' = Append(log, [level |-> "error",
                                      what |-> "unable to apply fields",
                                      arg |-> filename])
               /\ \E written \in BOOLEAN :
                    IF written
                    THEN /\ captureFiles' =
                              WriteFile(captureFiles, filename, Pickle(event))
                         /\ result' = None
                         /\ pc' = "destroy"
                         /\ UNCHANGED exc
                    ELSE /\ Propagate("OSError")
                         /\ UNCHANGED <<captureFiles, result>>
          ELSE /\ Propagate(r.exc)
               /\ UNCHANGED <<log, captureFiles, result>>
    /\ UNCHANGED <<peer, SGHS_PROJECTS, CAPTURE_LAST_EVENT, event, path, engine,
                   sessions, nextSession, full_shot, fields, idx,
                   lastEventFile, cmds>>

\* lines 214-216 and the assignment of line 99
Destroy ==
    /\ pc = "destroy"
    /\ trace' = Append(trace, "destroy")
    /\ sessions' = sessions \ {engine}
    /\ path' = result
    /\ pc' = "check_path"
    /\ UNCHANGED <<peer, SGHS_PROJECTS, CAPTURE_LAST_EVENT, event, engine,
                   nextSession, full_shot, fields, result, idx, lastEventFile,
                   captureFiles, cmds, log, exc>>

\* line 103
CheckPath ==
    /\ pc = "check_path"
    /\ IF Truthy(path)
       THEN /\ pc' = "add_tags"
            /\ idx' = 1
       ELSE /\ pc' = "returned"
            /\ UNCHANGED idx
    /\ UNCHANGED <<peer, SGHS_PROJECTS, CAPTURE_LAST_EVENT, event, path, engine,
                   sessions, nextSession, full_shot, fields, result,
                   lastEventFile, captureFiles, cmds, log, trace, exc>>

\* subprocess.run called with check=True
SubprocessCheck_Enabled == TRUE

\* lines 238, 253: subprocess.run(cmd, shell=True, capture_output=True),
\* the check argument is left at its default
SubprocessCheck == FALSE

\* subprocess.run raises CalledProcessError on a non-zero exit status only
\* when check is set
RunRaises(failed) == SubprocessCheck /\ failed

\* a command run through subprocess.run: its exit status is not looked at
RunAll(issued, failed) ==
    [i \in 1..Len(issued) |-> [cmd |-> issued[i], failed |-> failed]]

\* lines 126-129: one turn of the loop of add_tags, or its end
AddTag ==
    /\ pc = "add_tags"
    /\ IF idx <= Len(tags_to_add(event))
       THEN /\ \E failed \in BOOLEAN :
                 LET issued == hs_keyword_add(path, tags_to_add(event)[idx],
                                              RecursiveFlag)
                 IN /\ issued = <<>> => ~failed
                    /\ cmds' = cmds \o RunAll(issued, failed)
                    /\ IF RunRaises(failed)
                       THEN /\ Propagate("CalledProcessError")
                            /\ UNCHANGED idx
                       ELSE /\ idx' = idx + 1
                            /\ UNCHANGED <<pc, exc>>
       ELSE /\ pc' = "remove_tags"
            /\ idx' = 1
            /\ UNCHANGED <<cmds, exc>>
    /\ UNCHANGED <<peer, SGHS_PROJECTS, CAPTURE_LAST_EVENT, event, path, engine,
                   sessions, nextSession, full_shot, fields, result,
                   lastEventFile, captureFiles, log, trace>>

\* lines 140-142: one turn of the loop of remove_tags, or its end
RemoveTag ==
    /\ pc = "remove_tags"
    /\ IF idx <= Len(tags_to_remove(event))
       THEN /\ \E failed \in BOOLEAN :
                 LET issued == hs_keyword_delete(path,
                                                 tags_to_remove(event)[idx],
                                                 RecursiveFlag)
                 IN /\ issued = <<>> => ~failed
                    /\ cmds' = cmds \o RunAll(issued, failed)
                    /\ IF RunRaises(failed)
                       THEN /\ Propagate("CalledProcessError")
                            /\ UNCHANGED idx
                       ELSE /\ idx' = idx + 1
                            /\ UNCHANGED <<pc, exc>>
       ELSE /\ pc' = "returned"
            /\ UNCHANGED <<idx, cmds, exc>>
    /\ UNCHANGED <<peer, SGHS_PROJECTS, CAPTURE_LAST_EVENT, event, path, engine,
                   sessions, nextSession, full_shot, fields, result,
                   lastEventFile, captureFiles, log, trace>>

Next ==
    \/ \E e \in Events : Deliver(e)
    \/ CheckProject
    \/ CaptureLast
    \/ CheckAllowList
    \/ Bootstrap
    \/ GetTemplate
    \/ FindOne
    \/ ExtractFields
    \/ ApplyFields
    \/ Destroy
    \/ CheckPath
    \/ AddTag
    \/ RemoveTag

Spec == Init /\ [][Next]_vars

\* the invocation has ended: it returned or an exception left it
Ended == pc \in {"returned", "raised"}

----------------------------------------------------------------------------
(* The daemon calling the callback for one event after another *)

\* events of one allow-listed project that add sghs:hero to a shot
SeqEvents ==
    {e \in Events :
        /\ e.project.ty = "dict"
        /\ e.project.id = 5
        /\ e.meta = [type |-> "attribute_change",
                     added |-> <<[name |-> TagHero]>>, removed |-> <<>>]}

\* the daemon calls shothammer() again once the previous call is over: the
\* locals are new, the files and the engines left behind remain
NextInvocation(e) ==
    /\ Ended
    /\ nextSession <= MaxSessions
    /\ event' = e
    /\ pc' = "check_project"
    /\ path' = None
    /\ engine' = 0
    /\ full_shot' = None
    /\ fields' = [Shot |-> None, Sequence |-> None, Episode |-> None]
    /\ result' = None
    /\ idx' = 0
    /\ cmds' = <<>>
    /\ log' = <<>>
    /\ trace' = <<>>
    /\ exc' = "none"
    /\ UNCHANGED <<peer, SGHS_PROJECTS, CAPTURE_LAST_EVENT, sessions, nextSession,
                   lastEventFile, captureFiles>>

NextSeq ==
    \/ \E e \in SeqEvents : Deliver(e)
    \/ \E e \in SeqEvents : NextInvocation(e)
    \/ CheckProject
    \/ CaptureLast
    \/ CheckAllowList
    \/ Bootstrap
    \/ GetTemplate
    \/ FindOne
    \/ ExtractFields
    \/ ApplyFields
    \/ Destroy
    \/ CheckPath
    \/ AddTag
    \/ RemoveTag

SpecSeq == Init /\ [][NextSeq]_vars

TypeOK ==
    /\ pc \in {"idle", "check_project", "capture_last", "allow_list",
               "bootstrap", "template", "find_one", "extract", "apply_fields",
               "destroy", "check_path", "add_tags", "remove_tags",
               "returned", "raised"}
    /\ Len(cmds) <= MaxTags
    /\ Cardinality(sessions) <= 1

----------------------------------------------------------------------------
(* A second callback run in parallel by the daemon *)

\* The second call is followed through bootstrap_engine_to_shot_path() only,
\* where it holds an engine in its own local variable.

\* line 164 in the second call: a fresh engine, or an exception
PeerBootstrap ==
    /\ peer.pc = "idle"
    /\ \E acquired \in BOOLEAN :
         IF acquired
         THEN /\ peer' = [pc |-> "resolving", engine |-> nextSession]
              /\ sessions' = sessions \cup {nextSession}
              /\ nextSession' = nextSession + 1
         ELSE /\ peer' = [peer EXCEPT !.pc = "raised"]
              /\ UNCHANGED <<sessions, nextSession>>
    /\ UNCHANGED <<SGHS_PROJECTS, CAPTURE_LAST_EVENT, pc, event, path, engine,
                   full_shot, fields, result, idx, lastEventFile,
                   captureFiles, cmds, log, trace, exc>>

\* lines 171-212 in the second call: the template, the lookup and the
\* composition on its own engine; they complete or one of them raises
PeerResolve ==
    /\ peer.pc = "resolving"
    /\ \E completed \in BOOLEAN :
         peer' = [peer EXCEPT !.pc = IF completed THEN "destroy" ELSE "raised"]
    /\ UNCHANGED <<SGHS_PROJECTS, CAPTURE_LAST_EVENT, pc, event, path, engine,
                   sessions, nextSession, full_shot, fields, result, idx,
                   lastEventFile, captureFiles, cmds, log, trace, exc>>

\* line 215 in the second call: engine.destroy() on its own engine
PeerDestroy ==
    /\ peer.pc = "destroy"
    /\ sessions' = sessions \ {peer.engine}
    /\ peer' = [peer EXCEPT !.pc = "done"]
    /\ UNCHANGED <<SGHS_PROJECTS, CAPTURE_LAST_EVENT, pc, event, path, engine,
                   nextSession, full_shot, fields, result, idx, lastEventFile,
                   captureFiles, cmds, log, trace, exc>>

NextPar ==
    \/ \E e \in SeqEvents : Deliver(e)
    \/ CheckProject
    \/ CaptureLast
    \/ CheckAllowList
    \/ Bootstrap
    \/ GetTemplate
    \/ FindOne
    \/ ExtractFields
    \/ ApplyFields
    \/ Destroy
    \/ CheckPath
    \/ AddTag
    \/ RemoveTag
    \/ PeerBootstrap
    \/ PeerResolve
    \/ PeerDestroy

SpecPar == Init /\ [][NextPar]_vars

PeerEnded == peer.pc \in {"done", "raised"}

----------------------------------------------------------------------------
(* Vocabulary of the properties *)

Delivered == pc # "idle"

HasProject == event.project.ty # "NoneType"

\* external calls of the resolution made so far
Called(name) == \E i \in 1..Len(trace) : trace[i] = name

SessionsOpened == nextSession - 1

WarnedAbout(code) ==
    \E i \in 1..Len(log) : log[i].level = "warn" /\ log[i].arg = code

AllowListIsEmpty == SGHS_PROJECTS.ty = "NoneType"

NotAllowListed ==
    /\ HasProject
    /\ ~AllowListIsEmpty
    /\ event.project.id \notin SGHS_PROJECTS.elems

----------------------------------------------------------------------------
(* Classification *)

\* C1: an event without a project makes the invocation log the shot's
\* display code and return normally, with no session opened, no
\* failure-capture file written and no keyword command issued.
C1_NoProjectReturns ==
    (Delivered /\ ~HasProject /\ Ended) =>
        /\ pc = "returned"
        /\ exc = "none"
        /\ WarnedAbout(get_shot_code(event))
        /\ SessionsOpened = 0
        /\ captureFiles = {}
        /\ cmds = <<>>

\* C2: with an empty allow-list every event that has a project goes on to
\* entity resolution whatever its project id, and the allow-list test does
\* not make the invocation fail (a failed write of the last-event file is
\* the only thing that may stop it before resolution).
C2_EmptyAllowListAllowsAll ==
    (Delivered /\ HasProject /\ AllowListIsEmpty /\ Ended /\ exc # "OSError")
        => Called("bootstrap_engine")

\* C3: an event whose project id is not in a non-empty allow-list opens no
\* session, makes no lookup, writes no failure-capture file and issues no
\* keyword command.
C3_NotAllowListedOutOfScope ==
    (Delivered /\ NotAllowListed) =>
        /\ SessionsOpened = 0
        /\ sessions = {}
        /\ trace = <<>>
        /\ captureFiles = {}
        /\ cmds = <<>>
        /\ pc # "raised" \/ exc = "OSError"

\* an invocation for a project outside a non-empty allow-list has returned
C3_Witness ==
    /\ Delivered
    /\ NotAllowListed
    /\ pc = "returned"
    /\ event.meta.added # <<>>

\* C4: an event whose meta type is not attribute_change opens no session and
\* issues no keyword command, even when its project is allow-listed.
C4_NotAttributeChangeOutOfScope ==
    (Delivered /\ ~is_attribute_change(event)) =>
        /\ SessionsOpened = 0
        /\ cmds = <<>>

----------------------------------------------------------------------------
(* Reconciliation *)

\* the keyword begins with the characters of the configured namespace
InNamespace(t) ==
    /\ Len(t) >= Len(SGHS_TAG_NAMESPACE)
    /\ SubSeq(t, 1, Len(SGHS_TAG_NAMESPACE)) = SGHS_TAG_NAMESPACE

\* number of occurrences, among the first n of a tag list, in the namespace
Matching(list, n) ==
    Cardinality({i \in 1..n : i <= Len(list) /\ InNamespace(list[i].name)})

\* turns of the two loops completed so far
AddsDone ==
    CASE pc = "add_tags" -> idx - 1
      [] pc \in {"remove_tags", "returned"} /\ Truthy(path)
            -> Len(event.meta.added)
      [] OTHER -> 0

RemovesDone ==
    CASE pc = "remove_tags" -> idx - 1
      [] pc = "returned" /\ Truthy(path) -> Len(event.meta.removed)
      [] OTHER -> 0

\* C5: every keyword command carries a keyword in the configured namespace;
\* a tag occurrence outside the namespace produces no command and no error,
\* one inside it exactly one command.
C5_NamespaceFilter ==
    /\ \A i \in 1..Len(cmds) : InNamespace(cmds[i].cmd.keyword)
    /\ Delivered =>
          Len(cmds) = Matching(event.meta.added, AddsDone)
                      + Matching(event.meta.removed, RemovesDone)
    /\ pc \in {"add_tags", "remove_tags"} => exc = "none"

\* both loops have run over a list holding tags inside and outside the
\* namespace
C5_Witness ==
    /\ pc = "returned"
    /\ Truthy(path)
    /\ event.meta.added = <<[name |-> TagOther]>>
    /\ event.meta.removed = <<[name |-> TagHero]>>
    /\ Len(cmds) = 1

\* the namespace keywords of a tag list, in the order of the list
RECURSIVE Kept(_)
Kept(list) ==
    IF list = <<>> THEN <<>>
    ELSE (IF InNamespace(Head(list).name) THEN <<Head(list).name>> ELSE <<>>)
         \o Kept(Tail(list))

Issued(i) == [tool |-> cmds[i].cmd.tool, keyword |-> cmds[i].cmd.keyword]

Expect(tool, keywords) ==
    [i \in 1..Len(keywords) |-> [tool |-> tool, keyword |-> keywords[i]]]

\* C6: no keyword-add command follows a keyword-delete command, and once the
\* invocation has returned with a path the commands are the adds of
\* meta.added in its order followed by the deletes of meta.removed in its
\* order, duplicates included.
C6_AddBeforeRemove ==
    /\ \A i, j \in 1..Len(cmds) :
          (i < j /\ cmds[i].cmd.tool = "hs keyword delete")
              => cmds[j].cmd.tool = "hs keyword delete"
    /\ (pc = "returned" /\ Truthy(path)) =>
          [i \in 1..Len(cmds) |-> Issued(i)]
              = Expect("hs keyword add", Kept(event.meta.added))
                \o Expect("hs keyword delete", Kept(event.meta.removed))

\* added = [sghs:x], removed = [sghs:x]: one add, then one delete
C6_Witness ==
    /\ pc = "returned"
    /\ event.meta.added = <<[name |-> TagX]>>
    /\ event.meta.removed = <<[name |-> TagX]>>
    /\ Len(cmds) = 2
    /\ Issued(1) = [tool |-> "hs keyword add", keyword |-> TagX]
    /\ Issued(2) = [tool |-> "hs keyword delete", keyword |-> TagX]

----------------------------------------------------------------------------
(* Path composition and failure capture *)

\* find_one returned a record lacking code, sequence or episode
RecordLacksField ==
    /\ full_shot.ty = "dict"
    /\ \/ full_shot.code.ty = "NoneType"
       \/ full_shot.sg_sequence.ty = "NoneType"
       \/ full_shot.sg_episode.ty = "NoneType"

ErrorsLogged == {i \in 1..Len(log) : log[i].level = "error"}

\* shot_id-<entity id>-<created_at to the second>.pickle
ExpectedCaptureName ==
    [prefix |-> "shot_id", id |-> event.entity.id,
     date |-> event.created_at.sec, ext |-> "pickle"]

\* C7: when the resolved record lacks code, sequence or episode, composition
\* fails, the failure capture is made exactly once, of the unmodified event
\* under shot_id-<entity id>-<created_at to the second>.pickle, and no
\* keyword command is issued.
C7_MissingFieldCaptured ==
    (Called("apply_fields") /\ RecordLacksField) =>
        /\ result.ty = "NoneType"
        /\ path.ty = "NoneType"
        /\ Cardinality(ErrorsLogged) = 1
        /\ \A i \in ErrorsLogged : log[i].arg = ExpectedCaptureName
        /\ exc # "OSError" =>
              captureFiles = {[name |-> ExpectedCaptureName,
                               content |-> [pickled |-> event]]}
        /\ cmds = <<>>

\* a record without code, fetched for an event created off the whole
\* second, was captured and the invocation returned
C7_Witness ==
    /\ pc = "returned"
    /\ RecordLacksField
    /\ full_shot.code.ty = "NoneType"
    /\ full_shot.sg_sequence.ty # "NoneType"
    /\ event.created_at.micro = 1
    /\ event.meta.added = <<[name |-> TagHero]>>
    /\ Cardinality(captureFiles) = 1

\* C8: no session is open once the invocation has returned or raised.
C8_SessionReleased == Ended => sessions = {}

\* C9: with the toggle on, every event the callback has classified, an
\* event without a project included, is in the last-event file before any
\* session is opened or command issued (unless that write itself failed);
\* with the toggle off the file is never written.
C9_LastEventCaptured ==
    /\ (CAPTURE_LAST_EVENT /\ exc # "OSError"
          /\ (Ended \/ SessionsOpened > 0 \/ cmds # <<>>))
          => lastEventFile = [pickled |-> event]
    /\ ~CAPTURE_LAST_EVENT => lastEventFile = NoFile

\* the template engine was asked for a path with a field missing
CompositionFailed ==
    /\ Called("apply_fields")
    /\ \E k \in {"Shot", "Sequence", "Episode"} : fields[k].ty = "NoneType"

\* C10: when composition fails and the capture file can be written, the
\* failure is logged, the capture written, and the invocation returns
\* normally without a keyword command: no exception reaches the caller.
C10_CompositionFailureHandled ==
    (CompositionFailed /\ exc # "OSError") =>
        /\ pc \in {"destroy", "check_path", "returned"}
        /\ exc = "none"
        /\ ErrorsLogged # {}
        /\ captureFiles # {}
        /\ cmds = <<>>

\* the invocation returned after a composition failure
C10_Witness ==
    /\ CompositionFailed
    /\ pc = "returned"
    /\ exc = "none"
    /\ full_shot.ty = "NoneType"
    /\ event.meta.removed # <<>>

----------------------------------------------------------------------------
(* Entity resolution *)

\* find_one has returned, and what it returned was None
LookupReturnedNone ==
    /\ Called("find_one")
    /\ pc # "extract"
    /\ exc # "Fault"
    /\ full_shot.ty = "NoneType"

\* C11: when find_one returns no record the field extraction raises nothing;
\* code, sequence and episode are all None, they go to path composition and
\* composition takes its failure path.
C11_MissingRecordTolerated ==
    LookupReturnedNone =>
        /\ exc \in {"none", "OSError"}
        /\ \A k \in {"Shot", "Sequence", "Episode"} : fields[k].ty = "NoneType"
        /\ pc = "apply_fields" \/ Called("apply_fields")
        /\ Called("apply_fields") =>
              /\ result.ty = "NoneType"
              /\ Cardinality(ErrorsLogged) = 1
              /\ exc = "none" => captureFiles # {}

\* the invocation ended after a lookup that found no record
C11_Witness ==
    /\ LookupReturnedNone
    /\ pc = "returned"
    /\ captureFiles # {}
    /\ event.meta.added # <<>>

----------------------------------------------------------------------------
(* Best-effort reconciliation *)

SomeCommandFailed == \E i \in 1..Len(cmds) : cmds[i].failed

\* C12: a keyword command that fails does not abort the batch: the loops go
\* on, no exception leaves the callback, and once the invocation has
\* returned with a path the keywords of the commands are the namespace tags
\* of added followed by those of removed, whatever each command's outcome.
C12_FailOpen ==
    /\ SomeCommandFailed =>
          /\ pc \in {"add_tags", "remove_tags", "returned"}
          /\ exc = "none"
    /\ (pc = "returned" /\ path.ty = "str") =>
          [i \in 1..Len(cmds) |-> cmds[i].cmd.keyword]
              = Kept(event.meta.added) \o Kept(event.meta.removed)

\* the first of two commands failed and the second was still run
C12_Witness ==
    /\ pc = "returned"
    /\ Len(cmds) = 2
    /\ cmds[1].failed
    /\ ~cmds[2].failed
    /\ cmds[1].cmd.tool = "hs keyword add"
    /\ cmds[2].cmd.tool = "hs keyword delete"

----------------------------------------------------------------------------
(* Reconciliation and the resolved path *)

\* C13: a keyword command is issued only in an invocation that resolved a
\* path, which needs code, sequence and episode all present at composition;
\* no invocation both writes a failure capture and issues a keyword command.
C13_CommandsOnlyWithPath ==
    cmds # <<>> =>
        /\ path.ty = "str"
        /\ Called("apply_fields")
        /\ \A k \in {"Shot", "Sequence", "Episode"} : fields[k].ty # "NoneType"
        /\ path = [ty |-> "str", Sequence |-> fields.Sequence,
                   Episode |-> fields.Episode, Shot |-> fields.Shot]
        /\ captureFiles = {}
        /\ ErrorsLogged = {}

\* commands were issued on a resolved path and the invocation returned
C13_Witness ==
    /\ pc = "returned"
    /\ Len(cmds) = 2
    /\ path.ty = "str"

AllowListed ==
    /\ HasProject
    /\ SGHS_PROJECTS.ty = "list"
    /\ event.project.id \in SGHS_PROJECTS.elems

C15_RecursiveCommands == \A i \in 1..Len(cmds) : cmds[i].cmd.r = TRUE

----------------------------------------------------------------------------
(* Net effect of one event on the keywords of the path *)

\* the external tool as an idempotent keyword set: a command that succeeds
\* adds or removes its keyword, a command that fails changes nothing
RECURSIVE KeywordsAfter(_, _)
KeywordsAfter(before, run) ==
    IF run = <<>> THEN before
    ELSE LET c == Head(run)
             now == IF c.failed THEN before
                    ELSE IF c.cmd.tool = "hs keyword add"
                    THEN before \cup {c.cmd.keyword}
                    ELSE before \ {c.cmd.keyword}
         IN KeywordsAfter(now, Tail(run))

Names(list) == {list[i].name : i \in 1..Len(list)}

\* namespace tags that the event both adds and removes
AddedAndRemoved ==
    {t \in Names(event.meta.added) \cap Names(event.meta.removed) :
        InNamespace(t)}

CommandsSucceeded(t) ==
    \A i \in 1..Len(cmds) : cmds[i].cmd.keyword = t => ~cmds[i].failed

\* C17 as stated: a namespace tag in both added and removed, its commands
\* succeeding, is present on the path after the invocation (add wins)
C17_AddWins ==
    (pc = "returned" /\ path.ty = "str") =>
        \A t \in AddedAndRemoved : \A before \in SUBSET Tags :
            CommandsSucceeded(t) => t \in KeywordsAfter(before, cmds)

\* C17: when a namespace tag is in both added and removed and its commands
\* succeed, the keyword is absent from the path after the invocation
\* whatever was there before: the delete comes last and wins.
C17_RemoveWins ==
    (pc = "returned" /\ path.ty = "str") =>
        \A t \in AddedAndRemoved : \A before \in SUBSET Tags :
            CommandsSucceeded(t) => t \notin KeywordsAfter(before, cmds)

\* an event adding and removing sghs:x ran both commands with success
C17_Witness ==
    /\ pc = "returned"
    /\ path.ty = "str"
    /\ TagX \in AddedAndRemoved
    /\ Len(cmds) = 2
    /\ CommandsSucceeded(TagX)

----------------------------------------------------------------------------
(* Resolution protocol *)

\* in scope as the classifier is specified: a project that the allow-list
\* admits and a tag attribute change
InScope ==
    /\ HasProject
    /\ AllowListIsEmpty \/ event.project.id \in SGHS_PROJECTS.elems
    /\ event.meta.type = "attribute_change"

Lookups == Cardinality({i \in 1..Len(trace) : trace[i] = "find_one"})

\* the call at position i of the trace is made on a bootstrapped engine that
\* has not been destroyed
OnLiveSession(i) ==
    /\ \E j \in 1..(i - 1) : trace[j] = "bootstrap_engine"
    /\ \A j \in 1..(i - 1) : trace[j] # "destroy"

\* C18: an in-scope invocation that completes performs exactly one lookup;
\* the lookup and the template application come after the session is
\* acquired and before it is torn down; keyword commands come only after
\* the teardown; an out-of-scope invocation performs no lookup.
C18_ResolutionProtocol ==
    Delivered =>
        /\ (InScope /\ pc = "returned") => Lookups = 1
        /\ \A i \in 1..Len(trace) :
              trace[i] \in {"find_one", "apply_fields"} => OnLiveSession(i)
        /\ cmds # <<>> => Called("destroy")
        /\ ~InScope => Lookups = 0

----------------------------------------------------------------------------
(* Failure captures over successive events *)

CapturedEvent(f) == f.content.pickled

\* C16 as stated: a failure capture, once written, is never replaced by the
\* capture of a different event.
C16_NeverOverwritten == [][\A f \in captureFiles : f \in captureFiles']_vars

\* C16: every capture file is named after the shot id and the whole second
\* of created_at of the event it holds, and a capture is replaced only by
\* the capture of an event of the same shot created within the same second;
\* events that differ in shot or in second keep distinct files.
C16_OverwrittenOnlyWithinShotAndSecond ==
    [][/\ \A f \in captureFiles' :
             /\ f.name.id = CapturedEvent(f).entity.id
             /\ f.name.date = CapturedEvent(f).created_at.sec
       /\ \A f \in captureFiles :
             \/ f \in captureFiles'
             \/ /\ event.entity.id = CapturedEvent(f).entity.id
                /\ event.created_at.sec = CapturedEvent(f).created_at.sec
                /\ [name |-> f.name, content |-> [pickled |-> event]]
                      \in captureFiles']_vars

\* two events of one shot, created in different seconds, were captured in
\* two files
C16_Witness ==
    /\ Cardinality(captureFiles) = 2
    /\ \E f, g \in captureFiles :
          /\ CapturedEvent(f).entity.id = CapturedEvent(g).entity.id
          /\ CapturedEvent(f).created_at.sec # CapturedEvent(g).created_at.sec

----------------------------------------------------------------------------
(* Parallel callbacks *)

\* the first call is between its bootstrap and its engine.destroy()
HoldsEngine ==
    pc \in {"template", "find_one", "extract", "apply_fields", "destroy"}

PeerHoldsEngine == peer.pc \in {"resolving", "destroy"}

\* C19: two calls running in parallel each work on an engine of their own:
\* the engines differ, neither call finds its engine destroyed by the other
\* while it uses it, and once both calls are over no engine is left.
C19_SessionIsolation ==
    /\ (engine # 0 /\ peer.engine # 0) => engine # peer.engine
    /\ HoldsEngine => engine \in sessions
    /\ PeerHoldsEngine => peer.engine \in sessions
    /\ (Ended /\ PeerEnded) => sessions = {}

====
